---- MODULE Spec2Model ----
(***************************************************************************)
(* Model of src/schematic.rs: the Hydra component schematic, its serde     *)
(* deserialization (Component::from_str), its projection to a Kubernetes   *)
(* pod specification (Component::to_pod_spec) and the parser of            *)
(* group/version.kind identifiers (GroupVersionKind::from_str).            *)
(*                                                                         *)
(* Conventions                                                             *)
(*   Option<T>     None == <<>>, Some(v) == <<v>>                          *)
(*   Result<T,E>   Ok(v) == [ok |-> TRUE, val |-> v],                      *)
(*                 Err(m) == [ok |-> FALSE, err |-> m], m a tuple whose    *)
(*                 first element is the message                            *)
(*   Vec<T>        a sequence                                              *)
(*   &str (GVK)    a sequence of one-character strings                     *)
(*   JSON object   a function from the set of keys present to the values   *)
(***************************************************************************)
EXTENDS Integers, Sequences, FiniteSets, TLC

VARIABLES pc, gvp, gvk, json_data, component, pod

vars == <<pc, gvp, gvk, json_data, component, pod>>

\* ---------------------------------------------------------------- bounds
\* longest group/version.kind string
MaxLen == 7

\* most fields left out of (or, from the minimal document, put back into)
\* an input document
MaxOmit == 2

\* most fields left out of a document whose `type` token is varied
MaxOmitTok == 1

\* longest containers, env, ports and httpHeaders sequences of a Component
\* that is constructed directly
MaxContainers == 2

MaxEnv == 2

MaxPorts == 2

MaxHeaders == 2

\* ------------------------------------------------------- Option / Result
None == <<>>

Some(v) == <<v>>

Ok(v) == [ok |-> TRUE, val |-> v]

Err(m) == [ok |-> FALSE, err |-> m]

\* Option::and_then(|x| Some(f(x)))
AndThenSome(o, f(_)) == IF o = None THEN None ELSE Some(f(o[1]))

\* ------------------------------------------------------------- strings
Chars == {"a", ".", "/"}

StrUpTo(n) == UNION {[1..k -> Chars] : k \in 0..n}

\* position of the first / last occurrence of sep in s, 0 when there is none
FirstIndex(s, sep) ==
    IF \E i \in 1..Len(s) : s[i] = sep
    THEN CHOOSE i \in 1..Len(s) : s[i] = sep /\ \A j \in 1..(i-1) : s[j] # sep
    ELSE 0

LastIndex(s, sep) ==
    IF \E i \in 1..Len(s) : s[i] = sep
    THEN CHOOSE i \in 1..Len(s) : s[i] = sep /\ \A j \in (i+1)..Len(s) : s[j] # sep
    ELSE 0

\* str::rsplitn-like split at the LAST separator (mutation of splitn2)
splitn2_last(s, sep) ==
    LET i == LastIndex(s, sep)
    IN  IF i = 0 THEN <<s>>
        ELSE <<SubSeq(s, 1, i-1), SubSeq(s, i+1, Len(s))>>

\* str::splitn(2, sep).collect(): at most two parts, split at the first sep
splitn2(s, sep) ==
    LET i == FirstIndex(s, sep)
    IN  IF i = 0 THEN <<s>>
        ELSE <<SubSeq(s, 1, i-1), SubSeq(s, i+1, Len(s))>>

\* ---------------------------------------------------- GroupVersionKind
\* from_str with the two separator tests taken on the whole input
GroupVersionKind_from_str_whole(s) ==
    LET parts == splitn2(s, "/")
        vk    == splitn2(s, ".")
    IN  IF Len(vk) # 2 THEN Err(<<"missing kind">>)
        ELSE IF Len(parts) # 2 THEN Err(<<"missing version and kind">>)
        ELSE LET r == splitn2(parts[2], ".")
             IN  IF Len(r) # 2
                 THEN Ok([group |-> parts[1], version |-> parts[2], kind |-> <<>>])
                 ELSE Ok([group |-> parts[1], version |-> r[1], kind |-> r[2]])

GroupVersionKind_from_str(s) ==
    LET parts == splitn2(s, "/")
    IN  IF Len(parts) # 2 THEN Err(<<"missing version and kind">>)
        ELSE LET vk == splitn2(parts[2], ".")
             IN  IF Len(vk) # 2 THEN Err(<<"missing kind">>)
                 ELSE Ok([group   |-> parts[1],
                          version |-> vk[1],
                          kind    |-> vk[2]])

\* ------------------------------------------------------- serde helpers
\* F applied to the value of e, which is computed once
LetIn(e, F(_)) == CHOOSE out \in {F(x) : x \in {e}} : TRUE

\* A field of a struct that has a default (#[serde(default)] on the field or
\* on the struct): the default is taken when the key is absent.
FieldOr(obj, key, de(_), dflt) ==
    IF key \in DOMAIN obj THEN de(obj[key]) ELSE Ok(dflt)

\* A field with no default and a non-Option type: an absent key is an error.
FieldReq(obj, key, de(_)) ==
    IF key \in DOMAIN obj THEN de(obj[key])
    ELSE Err(<<"missing field", key>>)

\* Option<T> given a value that is present
DeOption(v, de(_)) ==
    LetIn(de(v), LAMBDA r : IF r.ok THEN Ok(Some(r.val)) ELSE r)

\* An Option<T> field: an absent key is None.
FieldOpt(obj, key, de(_)) ==
    IF key \in DOMAIN obj THEN DeOption(obj[key], de) ELSE Ok(None)

\* The results of the fields of one struct (or the elements of one Vec), in
\* order: all the values, or the first error.
Collect(rs) ==
    LetIn(rs, LAMBDA v :
        IF \A i \in DOMAIN v : v[i].ok
        THEN Ok([i \in DOMAIN v |-> v[i].val])
        ELSE v[CHOOSE i \in DOMAIN v : ~v[i].ok /\ \A j \in 1..(i-1) : v[j].ok])

\* A struct: the record of the named fields, or the first error of rs.
Struct(names, rs) ==
    LetIn(Collect(rs), LAMBDA r :
        IF ~r.ok THEN r
        ELSE Ok([k \in {names[i] : i \in DOMAIN names} |->
                    r.val[CHOOSE i \in DOMAIN names : names[i] = k]]))

\* Vec<T>
DeVec(arr, de(_)) == Collect([i \in DOMAIN arr |-> de(arr[i])])

\* String, i32, bool, serde_json::Value: the input documents are well typed
DeScalar(v) == Ok(v)

\* An enum: the token must be the wire name of one of the variants.
DeEnum(tok, variants, wire(_)) ==
    IF \E v \in variants : wire(v) = tok
    THEN Ok(CHOOSE v \in variants : wire(v) = tok)
    ELSE Err(<<"unknown variant", tok>>)

\* ---------------------------------------------------------------- enums
\* serde's rename_all = "camelCase" on the variant names used in this file
RenameCamelCase(v) ==
    CASE v = "Boolean" -> "boolean"
      [] v = "String"  -> "string"
      [] v = "Number"  -> "number"
      [] v = "Null"    -> "null"

\* serde's rename_all = "UPPERCASE" on the variant names used in this file
RenameUpperCase(v) ==
    CASE v = "RW"   -> "RW"
      [] v = "RO"   -> "RO"
      [] v = "TCP"  -> "TCP"
      [] v = "UDP"  -> "UDP"
      [] v = "SCTP" -> "SCTP"

\* no rename_all attribute
RenameNone(v) == v

ParameterTypeVariants == {"Boolean", "String", "Number", "Null"}

\* ParameterType without its rename_all attribute (mutation)
ParameterType_wire_norename(v) == RenameNone(v)

ParameterType_wire(v) == RenameCamelCase(v)

de_ParameterType(tok) == DeEnum(tok, ParameterTypeVariants, ParameterType_wire)

AccessModeVariants == {"RW", "RO"}

de_AccessMode(tok) == DeEnum(tok, AccessModeVariants, RenameUpperCase)

AccessMode_default == "RW"

SharingPolicyVariants == {"Shared", "Exclusive"}

de_SharingPolicy(tok) == DeEnum(tok, SharingPolicyVariants, RenameNone)

SharingPolicy_default == "Exclusive"

PortProtocolVariants == {"TCP", "UDP", "SCTP"}

de_PortProtocol(tok) == DeEnum(tok, PortProtocolVariants, RenameUpperCase)

PortProtocol_default == "TCP"

PortProtocol_as_str(p) ==
    CASE p = "UDP"  -> "UDP"
      [] p = "SCTP" -> "SCTP"
      [] p = "TCP"  -> "TCP"

PortProtocol_to_string(p) == PortProtocol_as_str(p)

\* -------------------------------------------------------------- defaults
DEFAULT_WORKLOAD_TYPE == "core.hydra.io/v1alpha1.Singleton"

Component_default ==
    [workload_type     |-> DEFAULT_WORKLOAD_TYPE,
     os_type           |-> "linux",
     arch              |-> "amd64",
     parameters        |-> <<>>,
     containers        |-> <<>>,
     workload_settings |-> <<>>]

default_required == FALSE

\* the default with periodSeconds and timeoutSeconds exchanged (mutation)
HealthProbe_default_swapped ==
    [exec                  |-> None,
     http_get              |-> None,
     tcp_socket            |-> None,
     initial_delay_seconds |-> 0,
     period_seconds        |-> 1,
     timeout_seconds       |-> 10,
     success_threshold     |-> 1,
     failure_threshold     |-> 3]

HealthProbe_default ==
    [exec                  |-> None,
     http_get              |-> None,
     tcp_socket            |-> None,
     initial_delay_seconds |-> 0,
     period_seconds        |-> 10,
     timeout_seconds       |-> 1,
     success_threshold     |-> 1,
     failure_threshold     |-> 3]

Resources_default ==
    [cpu    |-> [required |-> "1"],
     memory |-> [required |-> "1G"],
     gpu    |-> [required |-> "0"],
     paths  |-> <<>>]

\* -------------------------------------------------------- deserializers
de_Parameter(o) ==
    Struct(<<"name", "description", "parameter_type", "required", "default">>,
           <<FieldReq(o, "name", DeScalar),
             FieldOpt(o, "description", DeScalar),
             FieldReq(o, "type", de_ParameterType),
             FieldOr(o, "required", DeScalar, default_required),
             FieldOpt(o, "default", DeScalar)>>)

de_WorkloadSetting(o) ==
    Struct(<<"name", "description", "parameter_type", "required", "default",
             "from_param">>,
           <<FieldReq(o, "name", DeScalar),
             FieldOpt(o, "description", DeScalar),
             FieldReq(o, "type", de_ParameterType),
             FieldOr(o, "required", DeScalar, default_required),
             FieldOpt(o, "default", DeScalar),
             FieldOpt(o, "fromParam", DeScalar)>>)

de_Env(o) ==
    Struct(<<"name", "value", "from_param">>,
           <<FieldReq(o, "name", DeScalar),
             FieldOpt(o, "value", DeScalar),
             FieldOpt(o, "fromParam", DeScalar)>>)

de_Port(o) ==
    Struct(<<"name", "container_port", "protocol">>,
           <<FieldReq(o, "name", DeScalar),
             FieldReq(o, "containerPort", DeScalar),
             FieldOr(o, "protocol", de_PortProtocol, PortProtocol_default)>>)

de_Exec(o) ==
    Struct(<<"command">>,
           <<FieldReq(o, "command", LAMBDA a : DeVec(a, DeScalar))>>)

de_HttpHeader(o) ==
    Struct(<<"name", "value">>,
           <<FieldReq(o, "name", DeScalar),
             FieldReq(o, "value", DeScalar)>>)

de_HttpGet(o) ==
    Struct(<<"path", "port", "http_headers">>,
           <<FieldReq(o, "path", DeScalar),
             FieldReq(o, "port", DeScalar),
             FieldReq(o, "httpHeaders", LAMBDA a : DeVec(a, de_HttpHeader))>>)

de_TcpSocket(o) ==
    Struct(<<"port">>, <<FieldReq(o, "port", DeScalar)>>)

de_HealthProbe(o) ==
    Struct(<<"exec", "http_get", "tcp_socket", "initial_delay_seconds",
             "period_seconds", "timeout_seconds", "success_threshold",
             "failure_threshold">>,
           <<FieldOr(o, "exec", LAMBDA x : DeOption(x, de_Exec),
                     HealthProbe_default.exec),
             FieldOr(o, "httpGet", LAMBDA x : DeOption(x, de_HttpGet),
                     HealthProbe_default.http_get),
             FieldOr(o, "tcpSocket", LAMBDA x : DeOption(x, de_TcpSocket),
                     HealthProbe_default.tcp_socket),
             FieldOr(o, "initialDelaySeconds", DeScalar,
                     HealthProbe_default.initial_delay_seconds),
             FieldOr(o, "periodSeconds", DeScalar,
                     HealthProbe_default.period_seconds),
             FieldOr(o, "timeoutSeconds", DeScalar,
                     HealthProbe_default.timeout_seconds),
             FieldOr(o, "successThreshold", DeScalar,
                     HealthProbe_default.success_threshold),
             FieldOr(o, "failureThreshold", DeScalar,
                     HealthProbe_default.failure_threshold)>>)

\* CPU, Memory and GPU have the same shape: one required field
de_Required(o) ==
    Struct(<<"required">>, <<FieldReq(o, "required", DeScalar)>>)

de_CPU(o) == de_Required(o)

de_Memory(o) == de_Required(o)

de_GPU(o) == de_Required(o)

de_Path(o) ==
    Struct(<<"name", "path", "access_mode", "sharing_policy">>,
           <<FieldReq(o, "name", DeScalar),
             FieldReq(o, "path", DeScalar),
             FieldOr(o, "accessMode", de_AccessMode, AccessMode_default),
             FieldOr(o, "sharingPolicy", de_SharingPolicy, SharingPolicy_default)>>)

de_Resources(o) ==
    Struct(<<"cpu", "memory", "gpu", "paths">>,
           <<FieldOr(o, "cpu", de_CPU, Resources_default.cpu),
             FieldOr(o, "memory", de_Memory, Resources_default.memory),
             FieldOr(o, "gpu", de_GPU, Resources_default.gpu),
             FieldOr(o, "paths", LAMBDA a : DeVec(a, de_Path),
                     Resources_default.paths)>>)

de_Container(o) ==
    Struct(<<"name", "image", "resources", "env", "ports", "liveness_probe",
             "readiness_probe">>,
           <<FieldReq(o, "name", DeScalar),
             FieldReq(o, "image", DeScalar),
             FieldOr(o, "resources", de_Resources, Resources_default),
             FieldOr(o, "env", LAMBDA a : DeVec(a, de_Env), <<>>),
             FieldOr(o, "ports", LAMBDA a : DeVec(a, de_Port), <<>>),
             FieldOpt(o, "livenessProbe", de_HealthProbe),
             FieldOpt(o, "readinessProbe", de_HealthProbe)>>)

de_Component(o) ==
    Struct(<<"workload_type", "os_type", "arch", "parameters", "containers",
             "workload_settings">>,
           <<FieldOr(o, "workloadType", DeScalar, Component_default.workload_type),
             FieldOr(o, "osType", DeScalar, Component_default.os_type),
             FieldOr(o, "arch", DeScalar, Component_default.arch),
             FieldOr(o, "parameters", LAMBDA a : DeVec(a, de_Parameter),
                     Component_default.parameters),
             FieldOr(o, "containers", LAMBDA a : DeVec(a, de_Container),
                     Component_default.containers),
             FieldOr(o, "workloadSettings",
                     LAMBDA a : DeVec(a, de_WorkloadSetting),
                     Component_default.workload_settings)>>)

\* Component::from_str: serde_json::from_str(json_data)?
Component_from_str(doc) == de_Component(doc)

\* ------------------------------------------------------------ projector
\* Env::to_env_var that resolves fromParam into the value (mutation)
Env_to_env_var_resolving(e) ==
    [name       |-> e.name,
     value      |-> IF e.value = None THEN e.from_param ELSE e.value,
     value_from |-> None]

Env_to_env_var(e) ==
    [name       |-> e.name,
     value      |-> e.value,
     value_from |-> None]

Port_to_container_port(p) ==
    [container_port |-> p.container_port,
     name           |-> Some(p.name),
     protocol       |-> Some(PortProtocol_to_string(p.protocol)),
     host_ip        |-> None,
     host_port      |-> None]

\* IntOrString::Int(n)
IntOrString_Int(n) == [variant |-> "Int", int |-> n]

HttpHeader_to_kube_header(h) == [name |-> h.name, value |-> h.value]

HttpGet_to_http_get_action(a) ==
    [http_headers |-> Some([i \in DOMAIN a.http_headers |->
                               HttpHeader_to_kube_header(a.http_headers[i])]),
     path         |-> Some(a.path),
     port         |-> IntOrString_Int(a.port),
     host         |-> None,
     scheme       |-> None]

TcpSocket_to_tcp_socket_action(t) ==
    [port |-> IntOrString_Int(t.port),
     host |-> None]

Exec_to_exec_action(c) == [command |-> Some(c.command)]

\* HealthProbe::to_probe that encodes one action only, exec before httpGet
\* before tcpSocket (mutation)
HealthProbe_to_probe_exclusive(p) ==
    [failure_threshold     |-> Some(p.failure_threshold),
     period_seconds        |-> Some(p.period_seconds),
     timeout_seconds       |-> Some(p.timeout_seconds),
     success_threshold     |-> Some(p.success_threshold),
     initial_delay_seconds |-> Some(p.initial_delay_seconds),
     exec       |-> AndThenSome(p.exec, Exec_to_exec_action),
     http_get   |-> IF p.exec # None THEN None
                    ELSE AndThenSome(p.http_get, HttpGet_to_http_get_action),
     tcp_socket |-> IF p.exec # None \/ p.http_get # None THEN None
                    ELSE AndThenSome(p.tcp_socket, TcpSocket_to_tcp_socket_action)]

HealthProbe_to_probe(p) ==
    [failure_threshold     |-> Some(p.failure_threshold),
     period_seconds        |-> Some(p.period_seconds),
     timeout_seconds       |-> Some(p.timeout_seconds),
     success_threshold     |-> Some(p.success_threshold),
     initial_delay_seconds |-> Some(p.initial_delay_seconds),
     exec       |-> AndThenSome(p.exec, Exec_to_exec_action),
     http_get   |-> AndThenSome(p.http_get, HttpGet_to_http_get_action),
     tcp_socket |-> AndThenSome(p.tcp_socket, TcpSocket_to_tcp_socket_action)]

\* BTreeMap::insert
BTreeMap_insert(m, k, v) ==
    [x \in (DOMAIN m) \cup {k} |-> IF x = k THEN v ELSE m[x]]

\* Quantity(s): a newtype around the string
Quantity(s) == s

\* to_resource_requirements that also requests the GPU (mutation)
Resources_to_resource_requirements_gpu(r) ==
    LET requests0 == <<>>
        requests1 == BTreeMap_insert(requests0, "cpu", Quantity(r.cpu.required))
        requests2 == BTreeMap_insert(requests1, "memory", Quantity(r.memory.required))
        requests3 == BTreeMap_insert(requests2, "gpu", Quantity(r.gpu.required))
    IN  [requests |-> Some(requests3), limits |-> None]

Resources_to_resource_requirements(r) ==
    LET requests0 == <<>>
        requests1 == BTreeMap_insert(requests0, "cpu", Quantity(r.cpu.required))
        requests2 == BTreeMap_insert(requests1, "memory", Quantity(r.memory.required))
    IN  [requests |-> Some(requests2), limits |-> None]

\* the closure of to_pod_spec with both probes taken from livenessProbe
\* (mutation)
Container_to_core_container_liveness(c) ==
    [name            |-> c.name,
     image           |-> Some(c.image),
     resources       |-> Some(Resources_to_resource_requirements(c.resources)),
     ports           |-> Some([i \in DOMAIN c.ports |->
                                  Port_to_container_port(c.ports[i])]),
     env             |-> Some([i \in DOMAIN c.env |-> Env_to_env_var(c.env[i])]),
     liveness_probe  |-> AndThenSome(c.liveness_probe, HealthProbe_to_probe),
     readiness_probe |-> AndThenSome(c.liveness_probe, HealthProbe_to_probe)]

\* the closure |c| core::Container { ... } of to_pod_spec
Container_to_core_container(c) ==
    [name            |-> c.name,
     image           |-> Some(c.image),
     resources       |-> Some(Resources_to_resource_requirements(c.resources)),
     ports           |-> Some([i \in DOMAIN c.ports |->
                                  Port_to_container_port(c.ports[i])]),
     env             |-> Some([i \in DOMAIN c.env |-> Env_to_env_var(c.env[i])]),
     liveness_probe  |-> AndThenSome(c.liveness_probe, HealthProbe_to_probe),
     readiness_probe |-> AndThenSome(c.readiness_probe, HealthProbe_to_probe)]

\* to_pod_spec that collects the containers in reverse (mutation)
Component_to_pod_spec_reversed(self) ==
    LET n == Len(self.containers)
    IN  [containers |-> [i \in DOMAIN self.containers |->
                            Container_to_core_container(self.containers[n + 1 - i])]]

Component_to_pod_spec(self) ==
    [containers |-> [i \in DOMAIN self.containers |->
                        Container_to_core_container(self.containers[i])]]

\* ------------------------------------------------------ input documents
\* The wire names of the fields of each struct.
Keys ==
    [Component       |-> {"workloadType", "osType", "arch", "parameters",
                          "containers", "workloadSettings"},
     Parameter       |-> {"name", "description", "type", "required", "default"},
     WorkloadSetting |-> {"name", "description", "type", "required", "default",
                          "fromParam"},
     Container       |-> {"name", "image", "resources", "env", "ports",
                          "livenessProbe", "readinessProbe"},
     Env             |-> {"name", "value", "fromParam"},
     Port            |-> {"name", "containerPort", "protocol"},
     HealthProbe     |-> {"exec", "httpGet", "tcpSocket", "initialDelaySeconds",
                          "periodSeconds", "timeoutSeconds", "successThreshold",
                          "failureThreshold"},
     Exec            |-> {"command"},
     HttpGet         |-> {"path", "port", "httpHeaders"},
     HttpHeader      |-> {"name", "value"},
     TcpSocket       |-> {"port"},
     Resources       |-> {"cpu", "memory", "gpu", "paths"},
     CPU             |-> {"required"},
     Memory          |-> {"required"},
     GPU             |-> {"required"},
     Path            |-> {"name", "path", "accessMode", "sharingPolicy"}]

\* The fields that have a default or an Option type in the source.
OptionalKeys ==
    [Component       |-> Keys.Component,
     Parameter       |-> {"description", "required", "default"},
     WorkloadSetting |-> {"description", "required", "default", "fromParam"},
     Container       |-> {"resources", "env", "ports", "livenessProbe",
                          "readinessProbe"},
     Env             |-> {"value", "fromParam"},
     Port            |-> {"protocol"},
     HealthProbe     |-> Keys.HealthProbe,
     Resources       |-> Keys.Resources,
     Path            |-> {"accessMode", "sharingPolicy"}]

FieldsOf(keys) == UNION {{<<st, k>> : k \in keys[st]} : st \in DOMAIN keys}

AllFields == FieldsOf(Keys)

OptionalFields == FieldsOf(OptionalKeys)

RECURSIVE SubsetsUpTo(_, _)
SubsetsUpTo(S, n) ==
    IF n = 0 THEN {{}}
    ELSE LET prev == SubsetsUpTo(S, n - 1)
         IN  prev \cup {sub \cup {x} : sub \in prev, x \in S}

\* the object `full` of struct st without the fields named in omit
Obj(st, full, omit) ==
    LetIn(full, LAMBDA f : [k \in {x \in DOMAIN f : <<st, x>> \notin omit} |-> f[k]])

TypeTokens == {"boolean", "string", "number", "null",
               "Boolean", "String", "Number", "Null",
               "BOOLEAN", "integer"}

TypeSites == {"Parameter", "WorkloadSetting"}

\* A document with every field set to a value other than its default, less the
\* omitted fields; the `type` of the struct named by site is the token tok.
Doc(omit, site, tok) ==
    LET header(n, v) == Obj("HttpHeader", [name |-> n, value |-> v], omit)
        httpGet == Obj("HttpGet",
                       [path |-> "/healthz", port |-> 8080,
                        httpHeaders |-> <<header("X-Probe", "1"),
                                          header("X-Probe", "2")>>], omit)
        exec == Obj("Exec", [command |-> <<"cat", "/tmp/ok">>], omit)
        tcp(n) == Obj("TcpSocket", [port |-> n], omit)
        liveness == Obj("HealthProbe",
                        [exec |-> exec, httpGet |-> httpGet, tcpSocket |-> tcp(9000),
                         initialDelaySeconds |-> 5, periodSeconds |-> 20,
                         timeoutSeconds |-> 2, successThreshold |-> 4,
                         failureThreshold |-> 6], omit)
        readiness == Obj("HealthProbe",
                         [tcpSocket |-> tcp(5432), periodSeconds |-> 30], omit)
        path == Obj("Path",
                    [name |-> "vol", path |-> "/data", accessMode |-> "RO",
                     sharingPolicy |-> "Shared"], omit)
        resources == Obj("Resources",
                         [cpu    |-> Obj("CPU", [required |-> "2"], omit),
                          memory |-> Obj("Memory", [required |-> "2G"], omit),
                          gpu    |-> Obj("GPU", [required |-> "1"], omit),
                          paths  |-> <<path>>], omit)
        env1 == Obj("Env", [name |-> "E1", value |-> "v1"], omit)
        env2 == Obj("Env", [name |-> "E2", fromParam |-> "p1"], omit)
        port == Obj("Port",
                    [name |-> "http", containerPort |-> 8080, protocol |-> "UDP"],
                    omit)
        container == Obj("Container",
                         [name |-> "c1", image |-> "nginx:latest",
                          resources |-> resources, env |-> <<env1, env2>>,
                          ports |-> <<port>>, livenessProbe |-> liveness,
                          readinessProbe |-> readiness], omit)
        parameter == Obj("Parameter",
                         [name |-> "p1", description |-> "a parameter",
                          type |-> IF site = "Parameter" THEN tok ELSE "string",
                          required |-> TRUE, default |-> "x"], omit)
        setting == Obj("WorkloadSetting",
                       [name |-> "s1", description |-> "a setting",
                        type |-> IF site = "WorkloadSetting" THEN tok ELSE "number",
                        required |-> TRUE, default |-> 1, fromParam |-> "p1"],
                       omit)
    IN  Obj("Component",
            [workloadType |-> "core.hydra.io/v1alpha1.Task", osType |-> "windows",
             arch |-> "arm64", parameters |-> <<parameter>>,
             containers |-> <<container>>, workloadSettings |-> <<setting>>],
            omit)

\* the documents that leave out at most n fields
DocsOmitting(n) ==
    {Doc(o, "Parameter", "string") : o \in SubsetsUpTo(AllFields, n)}

\* the documents that leave out every optional field but at most n
DocsKeeping(n) ==
    {Doc(OptionalFields \ k, "Parameter", "string") :
        k \in SubsetsUpTo(OptionalFields, n)}

\* the documents that leave out at most n fields and vary one `type` token
DocsTyped(n) ==
    {Doc(o, x[1], x[2]) :
        o \in SubsetsUpTo(AllFields, n), x \in TypeSites \X TypeTokens}

\* ----------------------------------------------------------- main spec
Idle == [ok |-> FALSE, err |-> <<"not run">>]

Init ==
    /\ pc = "start"
    /\ \/ json_data \in DocsOmitting(MaxOmit)
       \/ json_data \in DocsKeeping(MaxOmit)
       \/ json_data \in DocsTyped(MaxOmitTok)
    /\ component = Idle
    /\ pod = None
    /\ gvp = <<>>
    /\ gvk = Idle

\* let c = Component::from_str(json_data)
Parse ==
    /\ pc = "start"
    /\ component' = Component_from_str(json_data)
    /\ pc' = IF component'.ok THEN "parsed" ELSE "failed"
    /\ UNCHANGED <<json_data, pod, gvp, gvk>>

\* c.to_pod_spec(), or c.into()
Project ==
    /\ pc = "parsed"
    /\ pod' = Some(Component_to_pod_spec(component.val))
    /\ pc' = "projected"
    /\ UNCHANGED <<json_data, component, gvp, gvk>>

Next == Parse \/ Project

Spec == Init /\ [][Next]_vars

\* ------------------------------------------------ reading the documents
Has(o, k) == k \in DOMAIN o

\* the array under key k of object o, empty when the key is absent
Arr(o, k) == IF Has(o, k) THEN o[k] ELSE <<>>

\* object o with key k set to v
WithKey(o, k, v) == [x \in (DOMAIN o) \cup {k} |-> IF x = k THEN v ELSE o[x]]

\* object o with the keys of dflt it lacks taken from dflt
WithDefaults(o, dflt) ==
    [x \in (DOMAIN o) \cup (DOMAIN dflt) |-> IF Has(o, x) THEN o[x] ELSE dflt[x]]

\* object o with f applied to the value under k, when present
OnKey(o, k, f(_)) == IF Has(o, k) THEN [o EXCEPT ![k] = f(@)] ELSE o

OnEach(arr, f(_)) == [i \in DOMAIN arr |-> f(arr[i])]

Done == pc # "start"

ProbeKeys == {"livenessProbe", "readinessProbe"}

\* --------------------------------------------------------------- C4
C4_TopLevel(k, field) ==
    (~Has(json_data, k) /\ Component_from_str(WithKey(json_data, k, <<>>)).ok)
        => component.ok /\ component.val[field] = <<>>

C4_InContainer(k, field) ==
    \A i \in DOMAIN Arr(json_data, "containers") :
        LET filled == [json_data EXCEPT
                          !["containers"][i] = WithKey(@, k, <<>>)]
        IN  (~Has(json_data.containers[i], k) /\ Component_from_str(filled).ok)
                => component.ok /\ component.val.containers[i][field] = <<>>

C4_Paths ==
    \A i \in DOMAIN Arr(json_data, "containers") :
        Has(json_data.containers[i], "resources") =>
            LET filled == [json_data EXCEPT
                              !["containers"][i]["resources"] =
                                  WithKey(@, "paths", <<>>)]
            IN  ( /\ ~Has(json_data.containers[i].resources, "paths")
                  /\ Component_from_str(filled).ok )
                    => /\ component.ok
                       /\ component.val.containers[i].resources.paths = <<>>

C4_HttpHeaders ==
    \A i \in DOMAIN Arr(json_data, "containers") : \A pk \in ProbeKeys :
        (Has(json_data.containers[i], pk)
         /\ Has(json_data.containers[i][pk], "httpGet")) =>
            LET filled == [json_data EXCEPT
                              !["containers"][i][pk]["httpGet"] =
                                  WithKey(@, "httpHeaders", <<>>)]
                field == IF pk = "livenessProbe" THEN "liveness_probe"
                         ELSE "readiness_probe"
            IN  ( /\ ~Has(json_data.containers[i][pk].httpGet, "httpHeaders")
                  /\ Component_from_str(filled).ok )
                    => /\ component.ok
                       /\ component.val.containers[i][field][1]
                              .http_get[1].http_headers = <<>>

\* The six collections other than httpHeaders: an input that omits one of
\* them, and parses once the collection is given as empty, parses to the
\* empty sequence.
C4_OtherCollections ==
    Done =>
        /\ C4_TopLevel("parameters", "parameters")
        /\ C4_TopLevel("containers", "containers")
        /\ C4_TopLevel("workloadSettings", "workload_settings")
        /\ C4_InContainer("env", "env")
        /\ C4_InContainer("ports", "ports")
        /\ C4_Paths

\* C4: Component::from_str never fails solely because a collection-valued
\* field is absent: for parameters, containers, workloadSettings, env, ports,
\* paths and httpHeaders, an input that omits the field and is otherwise well
\* formed (it parses once the field is given as empty) parses, and the field
\* is the empty sequence.
C4_AbsentCollectionsAreEmpty ==
    Done => /\ C4_TopLevel("parameters", "parameters")
            /\ C4_TopLevel("containers", "containers")
            /\ C4_TopLevel("workloadSettings", "workload_settings")
            /\ C4_InContainer("env", "env")
            /\ C4_InContainer("ports", "ports")
            /\ C4_Paths
            /\ C4_HttpHeaders

\* --------------------------------------------------------------- C5
\* the `type` tokens of the document, with the parsed value of each
TypeSitesOf(doc) ==
    {<<"parameters", "parameters", i>> :
        i \in {j \in DOMAIN Arr(doc, "parameters") : Has(doc.parameters[j], "type")}}
    \cup
    {<<"workloadSettings", "workload_settings", i>> :
        i \in {j \in DOMAIN Arr(doc, "workloadSettings") :
                  Has(doc.workloadSettings[j], "type")}}

TokenAt(doc, site) == doc[site[1]][site[3]].type

ParsedTypeAt(c, site) == c[site[2]][site[3]].parameter_type

\* token tok at the site is accepted as variant v: it is not the reason of a
\* failure, and on success the parsed type is v
AcceptedAs(site, tok, v) ==
    /\ ~component.ok => component.err # <<"unknown variant", tok>>
    /\ component.ok => ParsedTypeAt(component.val, site) = v

CapitalTokens == {"Boolean", "String", "Number", "Null"}

LowerTokens == {"boolean", "string", "number", "null"}

VariantOfLower(tok) ==
    CASE tok = "boolean" -> "Boolean"
      [] tok = "string"  -> "String"
      [] tok = "number"  -> "Number"
      [] tok = "null"    -> "Null"

\* C5 as stated: `type` accepts exactly the tokens Boolean, String, Number and
\* Null, each mapped to the variant of the same name, and any other token makes
\* Component::from_str fail.
C5_CapitalTokensAccepted ==
    Done =>
        \A site \in TypeSitesOf(json_data) :
            LET tok == TokenAt(json_data, site)
            IN  IF tok \in CapitalTokens THEN AcceptedAs(site, tok, tok)
                ELSE ~component.ok

\* C5 amended: `type` accepts exactly the tokens boolean, string, number and
\* null, mapped to the variants Boolean, String, Number and Null, and any other
\* token (the capitalised spellings included) makes Component::from_str fail.
C5_LowerTokensAccepted ==
    Done =>
        \A site \in TypeSitesOf(json_data) :
            LET tok == TokenAt(json_data, site)
            IN  IF tok \in LowerTokens
                THEN AcceptedAs(site, tok, VariantOfLower(tok))
                ELSE ~component.ok

\* a Parameter of type "Boolean" is rejected
C5_Witness ==
    /\ pc = "failed"
    /\ Has(json_data, "parameters")
    /\ Has(json_data.parameters[1], "type")
    /\ json_data.parameters[1].type = "Boolean"
    /\ component.err = <<"unknown variant", "Boolean">>

\* --------------------------------------------------------------- C6
FillPath(o) == WithDefaults(o, [accessMode |-> "RW", sharingPolicy |-> "Exclusive"])

FillResources(o) ==
    OnKey(WithDefaults(o, [cpu    |-> [required |-> "1"],
                           memory |-> [required |-> "1G"],
                           gpu    |-> [required |-> "0"]]),
          "paths", LAMBDA a : OnEach(a, FillPath))

FillProbe(o) ==
    WithDefaults(o, [initialDelaySeconds |-> 0, periodSeconds |-> 10,
                     timeoutSeconds |-> 1, successThreshold |-> 1,
                     failureThreshold |-> 3])

FillPort(o) == WithDefaults(o, [protocol |-> "TCP"])

FillContainer(o) ==
    LET o1 == WithDefaults(o, [resources |-> <<>>])
        o2 == OnKey(o1, "resources", FillResources)
        o3 == OnKey(o2, "ports", LAMBDA a : OnEach(a, FillPort))
        o4 == OnKey(o3, "livenessProbe", FillProbe)
    IN  OnKey(o4, "readinessProbe", FillProbe)

FillParameter(o) == WithDefaults(o, [required |-> FALSE])

\* the document with every absent optional scalar written out as its
\* documented default; absent probes and collections stay absent
FillDefaults(doc) ==
    LET d1 == WithDefaults(doc, [workloadType |-> "core.hydra.io/v1alpha1.Singleton",
                                 osType |-> "linux", arch |-> "amd64"])
        d2 == OnKey(d1, "containers", LAMBDA a : OnEach(a, FillContainer))
    IN  OnKey(d2, "parameters", LAMBDA a : OnEach(a, FillParameter))

\* field k of the document object o is absent => the parsed field is v
DefaultsTo(o, k, parsed, v) == ~Has(o, k) => parsed = v

C6_Resources(dc, c) ==
    LET dr == IF Has(dc, "resources") THEN dc.resources ELSE <<>>
    IN  /\ DefaultsTo(dr, "cpu", c.resources.cpu.required, "1")
        /\ DefaultsTo(dr, "memory", c.resources.memory.required, "1G")
        /\ DefaultsTo(dr, "gpu", c.resources.gpu.required, "0")
        /\ \A j \in DOMAIN Arr(dr, "paths") :
              /\ DefaultsTo(dr.paths[j], "accessMode",
                            c.resources.paths[j].access_mode, "RW")
              /\ DefaultsTo(dr.paths[j], "sharingPolicy",
                            c.resources.paths[j].sharing_policy, "Exclusive")

C6_Probe(dc, pk, parsed) ==
    IF ~Has(dc, pk) THEN parsed = None
    ELSE /\ parsed # None
         /\ DefaultsTo(dc[pk], "initialDelaySeconds", parsed[1].initial_delay_seconds, 0)
         /\ DefaultsTo(dc[pk], "periodSeconds", parsed[1].period_seconds, 10)
         /\ DefaultsTo(dc[pk], "timeoutSeconds", parsed[1].timeout_seconds, 1)
         /\ DefaultsTo(dc[pk], "successThreshold", parsed[1].success_threshold, 1)
         /\ DefaultsTo(dc[pk], "failureThreshold", parsed[1].failure_threshold, 3)

SeqsUpTo(S, n) == UNION {[1..k -> S] : k \in 0..n}

Opt(S) == {None} \cup {Some(x) : x \in S}

EnvSet ==
    {[name |-> "A", value |-> Some("x"), from_param |-> None],
     [name |-> "B", value |-> None,      from_param |-> Some("p1")],
     [name |-> "A", value |-> Some("y"), from_param |-> Some("p2")],
     [name |-> "C", value |-> None,      from_param |-> None]}

FromParamSet == Opt({"p1", "p2", "p3"})

PortSet ==
    {[name |-> "http", container_port |-> 8080, protocol |-> "TCP"],
     [name |-> "dns",  container_port |-> 53,   protocol |-> "UDP"],
     [name |-> "assoc", container_port |-> 9,   protocol |-> "SCTP"]}

HeaderSet == {[name |-> "X-Probe", value |-> "1"], [name |-> "X-Probe", value |-> "2"]}

HttpGetSet ==
    {[path |-> "/healthz", port |-> 8080, http_headers |-> h] :
        h \in SeqsUpTo(HeaderSet, MaxHeaders)}

ExecSet == {[command |-> <<"cat", "/tmp/ok">>]}

TcpSocketSet == {[port |-> 5432]}

TuningSet ==
    {[initial_delay_seconds |-> 0, period_seconds |-> 10, timeout_seconds |-> 1,
      success_threshold |-> 1, failure_threshold |-> 3],
     [initial_delay_seconds |-> 5, period_seconds |-> 20, timeout_seconds |-> 2,
      success_threshold |-> 4, failure_threshold |-> 6]}

HealthProbeSet ==
    {[exec |-> e, http_get |-> h, tcp_socket |-> t,
      initial_delay_seconds |-> n.initial_delay_seconds,
      period_seconds |-> n.period_seconds, timeout_seconds |-> n.timeout_seconds,
      success_threshold |-> n.success_threshold,
      failure_threshold |-> n.failure_threshold] :
        e \in Opt(ExecSet), h \in Opt(HttpGetSet), t \in Opt(TcpSocketSet),
        n \in TuningSet}

GpuSet == {"0", "1"}

PathsSet ==
    {<<>>, <<[name |-> "vol", path |-> "/data", access_mode |-> "RO",
              sharing_policy |-> "Shared"]>>}

ResourcesSet ==
    {[cpu |-> [required |-> c], memory |-> [required |-> m],
      gpu |-> [required |-> g], paths |-> ps] :
        c \in {"1", "500m"}, m \in {"1G", "256M"}, g \in GpuSet, ps \in PathsSet}

BaseContainer ==
    [name |-> "c1", image |-> "nginx:latest", resources |-> Resources_default,
     env |-> <<>>, ports |-> <<>>, liveness_probe |-> None,
     readiness_probe |-> None]

\* containers that vary one part of BaseContainer
ContainerSet ==
    {[BaseContainer EXCEPT !.env = e] : e \in SeqsUpTo(EnvSet, MaxEnv)}
    \cup {[BaseContainer EXCEPT !.ports = ps] : ps \in SeqsUpTo(PortSet, MaxPorts)}
    \cup {[BaseContainer EXCEPT !.resources = r] : r \in ResourcesSet}
    \cup {[BaseContainer EXCEPT !.liveness_probe = l, !.readiness_probe = r] :
             l \in Opt(HealthProbeSet), r \in Opt(HealthProbeSet)}

\* the containers of the multi-container Components
NamedContainerSet ==
    {[BaseContainer EXCEPT !.name = "web", !.image = "nginx:latest"],
     [BaseContainer EXCEPT !.name = "db", !.image = "postgres:11"],
     [BaseContainer EXCEPT !.name = "web", !.image = "postgres:11"]}

ComponentSet ==
    {[Component_default EXCEPT !.containers = cs] :
        cs \in {<<c>> : c \in ContainerSet}
               \cup SeqsUpTo(NamedContainerSet, MaxContainers)}

\* ------------------------------------------------------ projection spec
InitProject ==
    /\ pc = "parsed"
    /\ json_data = <<>>
    /\ component \in {Ok(c) : c \in ComponentSet}
    /\ pod = None
    /\ gvp = <<>>
    /\ gvk = Idle

NextProject == Project

SpecProject == InitProject /\ [][NextProject]_vars

Projected == pc = "projected"

Src == component.val.containers

Out == pod[1].containers

\* C1: to_pod_spec keeps length and order: one output container per source
\* container at the same index with name and image copied, ports and env of
\* the same length with the j-th entry derived from the j-th source entry;
\* projecting again gives the same output.
C1_OrderPreserved ==
    Projected =>
        /\ Len(Out) = Len(Src)
        /\ \A i \in DOMAIN Src :
              /\ Out[i].name = Src[i].name
              /\ Out[i].image = Some(Src[i].image)
              /\ Out[i].ports # None
              /\ Len(Out[i].ports[1]) = Len(Src[i].ports)
              /\ \A j \in DOMAIN Src[i].ports :
                    /\ Out[i].ports[1][j].container_port = Src[i].ports[j].container_port
                    /\ Out[i].ports[1][j].name = Some(Src[i].ports[j].name)
                    /\ Out[i].ports[1][j].protocol = Some(Src[i].ports[j].protocol)
              /\ Out[i].env # None
              /\ Len(Out[i].env[1]) = Len(Src[i].env)
              /\ \A j \in DOMAIN Src[i].env :
                    /\ Out[i].env[1][j].name = Src[i].env[j].name
                    /\ Out[i].env[1][j].value = Src[i].env[j].value
        /\ Component_to_pod_spec(component.val) = pod[1]

\* two containers with different names, projected in source order
C1_Witness ==
    /\ Projected
    /\ Len(Src) = 2
    /\ Src[1].name = "db" /\ Src[2].name = "web"
    /\ Out[1].name = "db" /\ Out[2].name = "web"

\* C7: the projected resource requirements have requests with exactly the keys
\* cpu and memory, equal to resources.cpu.required and
\* resources.memory.required; limits is never set; gpu and paths have no
\* effect on the output; default Resources give {cpu: "1", memory: "1G"}.
C7_RequestsCpuAndMemoryOnly ==
    Projected =>
        \A i \in DOMAIN Src :
            LET r == Src[i].resources
                q == Out[i].resources
            IN  /\ q # None
                /\ q[1].limits = None
                /\ q[1].requests # None
                /\ DOMAIN q[1].requests[1] = {"cpu", "memory"}
                /\ q[1].requests[1]["cpu"] = r.cpu.required
                /\ q[1].requests[1]["memory"] = r.memory.required
                /\ r = Resources_default =>
                      q[1].requests[1] = [cpu |-> "1", memory |-> "1G"]
                /\ \A g \in GpuSet : \A ps \in PathsSet :
                      Container_to_core_container(
                          [Src[i] EXCEPT !.resources.gpu.required = g,
                                         !.resources.paths = ps]) = Out[i]

\* a container that asks for a GPU and a path still requests cpu and memory only
C7_Witness ==
    /\ Projected
    /\ Len(Src) = 1
    /\ Src[1].resources.gpu.required = "1"
    /\ Src[1].resources.paths # <<>>
    /\ DOMAIN Out[1].resources[1].requests[1] = {"cpu", "memory"}

\* the source probes of container i with their projections
ProbePairs(i) ==
    {<<Src[i].liveness_probe, Out[i].liveness_probe>>,
     <<Src[i].readiness_probe, Out[i].readiness_probe>>}

\* C8: each of exec, httpGet and tcpSocket is in the projected probe iff it is
\* populated on the source (one, several or none); httpGet.port and
\* tcpSocket.port are the integer variant with the source port; httpGet
\* headers are a list in source order with duplicates kept.
C8_ActionsIffPopulated ==
    Projected =>
        \A i \in DOMAIN Src : \A pq \in ProbePairs(i) :
            (pq[1] # None /\ pq[2] # None) =>
                LET p == pq[1][1]
                    q == pq[2][1]
                IN  /\ (q.exec # None) <=> (p.exec # None)
                    /\ (q.http_get # None) <=> (p.http_get # None)
                    /\ (q.tcp_socket # None) <=> (p.tcp_socket # None)
                    /\ p.exec # None =>
                          q.exec[1].command = Some(p.exec[1].command)
                    /\ p.tcp_socket # None =>
                          q.tcp_socket[1].port =
                              [variant |-> "Int", int |-> p.tcp_socket[1].port]
                    /\ p.http_get # None =>
                          LET a == p.http_get[1]
                              b == q.http_get[1]
                          IN  /\ b.port = [variant |-> "Int", int |-> a.port]
                              /\ b.http_headers # None
                              /\ Len(b.http_headers[1]) = Len(a.http_headers)
                              /\ \A j \in DOMAIN a.http_headers :
                                    b.http_headers[1][j] =
                                        [name  |-> a.http_headers[j].name,
                                         value |-> a.http_headers[j].value]

\* a probe with all three kinds populated and a repeated header name
C8_Witness ==
    /\ Projected
    /\ Len(Src) = 1
    /\ Src[1].liveness_probe # None
    /\ Src[1].liveness_probe[1].exec # None
    /\ Src[1].liveness_probe[1].tcp_socket # None
    /\ Src[1].liveness_probe[1].http_get # None
    /\ Len(Src[1].liveness_probe[1].http_get[1].http_headers) = 2
    /\ Out[1].liveness_probe[1].exec # None
    /\ Out[1].liveness_probe[1].tcp_socket # None
    /\ Len(Out[1].liveness_probe[1].http_get[1].http_headers[1]) = 2

TuningOf(p, q) ==
    /\ q.failure_threshold = Some(p.failure_threshold)
    /\ q.period_seconds = Some(p.period_seconds)
    /\ q.timeout_seconds = Some(p.timeout_seconds)
    /\ q.success_threshold = Some(p.success_threshold)
    /\ q.initial_delay_seconds = Some(p.initial_delay_seconds)

\* C9: the projected livenessProbe is present iff the source livenessProbe is,
\* and likewise readinessProbe, each from its own source probe; a projected
\* probe has all five tuning fields set, equal to the source fields.
C9_ProbesCarriedThrough ==
    Projected =>
        \A i \in DOMAIN Src : \A pq \in ProbePairs(i) :
            /\ (pq[2] # None) <=> (pq[1] # None)
            /\ pq[1] # None => TuningOf(pq[1][1], pq[2][1])

\* no livenessProbe, and a readinessProbe left at the default tuning
C9_Witness ==
    /\ Projected
    /\ Len(Src) = 1
    /\ Src[1].liveness_probe = None
    /\ Src[1].readiness_probe # None
    /\ Src[1].readiness_probe[1].period_seconds = 10
    /\ Out[1].liveness_probe = None
    /\ Out[1].readiness_probe[1].period_seconds = Some(10)

\* C10: the projected env entry carries the source name and literal value and
\* no valueFrom; with fromParam set instead of value, value and valueFrom are
\* both None; fromParam never influences the output.
C10_EnvCarriesNameAndValue ==
    Projected =>
        \A i \in DOMAIN Src : \A j \in DOMAIN Src[i].env :
            LET e == Src[i].env[j]
                v == Out[i].env[1][j]
            IN  /\ v.name = e.name
                /\ v.value = e.value
                /\ v.value_from = None
                /\ (e.value = None /\ e.from_param # None) =>
                      (v.value = None /\ v.value_from = None)
                /\ \A fp \in FromParamSet :
                      Env_to_env_var([e EXCEPT !.from_param = fp]) = v

\* an Env given by fromParam only projects to an entry with no value
C10_Witness ==
    /\ Projected
    /\ Len(Src) = 1
    /\ Len(Src[1].env) >= 1
    /\ Src[1].env[1].value = None
    /\ Src[1].env[1].from_param = Some("p1")
    /\ Out[1].env[1][1].value = None

\* ------------------------------------------------------------ GVK spec
InitGVK ==
    /\ pc = "start"
    /\ gvp \in StrUpTo(MaxLen)
    /\ gvk = Idle
    /\ json_data = <<>>
    /\ component = Idle
    /\ pod = None

ParseGVK ==
    /\ pc = "start"
    /\ gvk' = GroupVersionKind_from_str(gvp)
    /\ pc' = "done"
    /\ UNCHANGED <<gvp, json_data, component, pod>>

NextGVK == ParseGVK

SpecGVK == InitGVK /\ [][NextGVK]_vars

\* text of s before / after position i
Before(s, i) == SubSeq(s, 1, i-1)

After(s, i) == SubSeq(s, i+1, Len(s))

HasChar(s, c) == \E i \in 1..Len(s) : s[i] = c

\* C2: a string with a '/' whose text after the first '/' contains a '.'
\* parses to group = text before the first '/', version = text between that
\* '/' and the first '.' after it, kind = everything after that '.'.
C2_SplitFirstSlashThenFirstDot ==
    pc = "done" =>
        \A i \in 1..Len(gvp) : \A k \in (i+1)..Len(gvp) :
            ( /\ gvp[i] = "/" /\ ~HasChar(Before(gvp, i), "/")
              /\ gvp[k] = "." /\ ~HasChar(SubSeq(gvp, i+1, k-1), ".") )
            => gvk = Ok([group   |-> Before(gvp, i),
                         version |-> SubSeq(gvp, i+1, k-1),
                         kind    |-> After(gvp, k)])

\* "a.a/a.a": dots in the group are kept, version and kind are split at the dot
C2_Witness ==
    /\ pc = "done"
    /\ gvp = <<"a", ".", "a", "/", "a", ".", "a">>
    /\ gvk.ok
    /\ gvk.val.group = <<"a", ".", "a">>

\* C3: from_str fails exactly when a separator is absent; no '/' gives
\* "missing version and kind", a '/' with no '.' after the first '/' gives
\* "missing kind", everything else succeeds (empty segments included).
C3_ErrorsIdentifySeparator ==
    pc = "done" =>
        LET i == FirstIndex(gvp, "/")
        IN  /\ ~HasChar(gvp, "/") => gvk = Err(<<"missing version and kind">>)
            /\ (HasChar(gvp, "/") /\ ~HasChar(After(gvp, i), "."))
                   => gvk = Err(<<"missing kind">>)
            /\ (HasChar(gvp, "/") /\ HasChar(After(gvp, i), ".")) => gvk.ok

\* "a.a/a": the group has a dot, the remainder has none
C3_Witness ==
    /\ pc = "done"
    /\ gvp = <<"a", ".", "a", "/", "a">>
    /\ gvk = Err(<<"missing kind">>)

====
